---- MODULE Spec2Model ----
(***************************************************************************)
(* Model of the download engine of mite-qtinstall:                         *)
(*   qti_util.pool_apply      the polling task pool                        *)
(*   qti_util.retrieve_URL    the retrying fetch (inlined in the task)     *)
(*   qti._download_archive    the per-archive task                         *)
(*   qti.download_archives    the mirror failover loop                     *)
(*   qti_util.dump_JSON       the cache record writer                      *)
(*   qti_util.init_worker     the SIGINT policy of the workers             *)
(* Six specifications: Spec runs download_archives (which calls            *)
(* pool_apply with _download_archive); SpecPool runs pool_apply alone with *)
(* an opaque task function, as get_data.py uses it; SpecRetrieve runs one  *)
(* call of retrieve_URL with its sleeps and the bytes of its destination;  *)
(* SpecDump runs one call of dump_JSON with a crash at any point;          *)
(* SpecInterrupt runs pool_apply with one SIGINT; SpecLive is              *)
(* download_archives from an empty directory under weak fairness.          *)
(***************************************************************************)
EXTENDS Integers, Sequences, FiniteSets, TLC

VARIABLES
    archives,        \* download_archives: archives.values(), in dict order
    mirrors,         \* download_archives: working_mirrors (alias of mirrors)
    files,           \* the archives directory: file name -> content
    attempts,        \* req_opts[2] after int()
    workers_num,     \* async_opts[0] after int()
    print_delay_s,   \* async_opts[1], in time units
    dl_pc,           \* position of download_archives
    mirror_URL,      \* download_archives: the mirror of the current batch
    func,            \* pool_apply: _func
    tasks,           \* pool_apply: the AsyncResult objects, one per argument
    pool_pc,         \* position of pool_apply
    pool_alive,      \* live worker processes of the current Pool
    idx,             \* pool_apply: position of "for task in tasks"
    ready_tasks,     \* pool_apply: ready_tasks
    no_print_s,      \* pool_apply: no_print_s, in time units
    stdout,          \* the last line pool_apply printed in the current call
    async_results,   \* pool_apply: the returned list
    raised,          \* the exception that left pool_apply
    spawned,         \* history: worker processes the current call has started
    done_order,      \* history: opaque tasks in order of completion
    mirrors0,        \* history: the mirror list the operation was given
    files0,          \* history: the directory before the operation
    removed,         \* history: mirror URLs removed from the pool
    batches,         \* history: the mirror of every batch submitted
    verified,        \* history: archives whose task returned normally
    rt,              \* retrieve_URL called on its own: its frame and file
    dj,              \* dump_JSON called on its own: its frame and directory
    sig              \* SIGINT and init_worker, where an interrupt is modelled

vars == <<archives, mirrors, files, attempts, workers_num, print_delay_s,
          dl_pc, mirror_URL, func, tasks, pool_pc, pool_alive, idx,
          ready_tasks, no_print_s, stdout, async_results, raised,
          spawned, done_order, mirrors0, files0, removed, batches, verified,
          rt, dj, sig>>

dl_vars == <<archives, mirrors, dl_pc, mirror_URL, mirrors0, files0,
             removed, batches>>
in_vars == <<attempts, workers_num, print_delay_s, func, rt, dj, sig>>

----------------------------------------------------------------------------
(* Bounds of the model.                                                    *)
MaxMirrors == 2
MaxArchives == 2
MaxAttempts == 2
MaxWorkers == 3
MaxPrintDelay == 3
MaxTasks == 3

(* qti_util.py:104, check_progress_interval = 0.25, in units of 0.125 s.   *)
check_progress_interval == 2

MirrorURLs == {"m1", "m2"}
ArchiveNames == <<"qtbase", "qtsvg", "qttools">>
FileNames == {"f1.7z", "f2.7z"}
Contents == {"c1", "c2"}
Hashes == {"", "h1", "h2"}
TaskArgs == <<"A", "B", "C", "D">>

Min(a, b) == IF a < b THEN a ELSE b

SeqsUpTo(S, n) == UNION {[1..k -> S] : k \in 0..n}

----------------------------------------------------------------------------
(* Pure functions.                                                         *)

(* hashlib digest of a file's bytes: a truncated file has a digest of its  *)
(* own. "absent" is not a content: compute_hash raises FileNotFoundError.  *)
compute_hash(content) ==
    CASE content = "c1" -> "h1"
      [] content = "c2" -> "h2"
      [] OTHER -> "hp"

(* qti.py:119-121: the file name is the last "/" component of rel_path.    *)
get_archive_filepath(archive_info) ==
    archive_info.rel_path[Len(archive_info.rel_path)]

(* Mutant of hash_matches: an empty expected hash is not compared.         *)
hash_matches_unless_empty(computed_hash, expected) ==
    expected = "" \/ (computed_hash # "" /\ computed_hash = expected)

(* qti.py:131 and 138: computed_hash and computed_hash == expected.        *)
hash_matches(computed_hash, expected) ==
    computed_hash # "" /\ computed_hash = expected

(* qti.py:126-130: the digest of the destination, "" when it is missing.   *)
hash_or_empty(content) ==
    IF content = "absent" THEN "" ELSE compute_hash(content)

(* Mutant of list_remove: the list is left as it is.                       *)
list_remove_none(s, x) == s

(* Mutant of list_remove: every occurrence of x is dropped.                *)
list_remove_every(s, x) == SelectSeq(s, LAMBDA y : y # x)

(* qti.py:173, list.remove(x): drops the first occurrence of x.            *)
RECURSIVE list_remove(_, _)
list_remove(s, x) ==
    IF s = <<>> THEN <<>>
    ELSE IF Head(s) = x THEN Tail(s)
    ELSE <<Head(s)>> \o list_remove(Tail(s), x)

Elems(s) == {s[i] : i \in 1..Len(s)}

(* Mutant of while_working_mirrors: the loop gives up one mirror early.    *)
while_more_than_one(working_mirrors) == Len(working_mirrors) > 1

(* qti.py:156: while working_mirrors.                                      *)
while_working_mirrors(working_mirrors) == working_mirrors # <<>>

(* Mutant of except_clause: the hash mismatch is handled as any other      *)
(* exception.                                                              *)
except_clause_catch_all(kind) == "remove"

(* qti.py:167-169: which except clause takes an exception of this kind.    *)
except_clause(kind) ==
    IF kind = "HashMismathError" THEN "reraise" ELSE "remove"

(* Mutant of build_async_args: no argument tuple for an archive whose      *)
(* destination already has the expected digest.                            *)
build_args_of_invalid(archs, mirror) ==
    LET inv == SelectSeq(archs, LAMBDA a :
                   ~hash_matches(hash_or_empty(files[get_archive_filepath(a)]),
                                 a.sha256))
    IN [i \in 1..Len(inv) |-> [info |-> inv[i], mirror |-> mirror]]

(* qti.py:157-161: one argument tuple per archive, in dict order.          *)
build_async_args(archs, mirror) ==
    [i \in 1..Len(archs) |-> [info |-> archs[i], mirror |-> mirror]]

(* qti_util.py:109: apply_async gives one pending AsyncResult per argument *)
submit(async_args) ==
    [i \in 1..Len(async_args) |->
        [arg |-> async_args[i], st |-> "queued", val |-> <<>>,
         pc |-> "queued", attempt |-> 0]]

(* AsyncResult.ready() and AsyncResult.successful().                       *)
task_ready(task) == task.st \in {"ok", "err"}

(* Mutant of task_successful: a finished task counts as a successful one.  *)
task_finished(task) == task_ready(task)

task_successful(task) == task.st = "ok"

(* Mutant of collect_results: the results in order of completion.          *)
collect_as_completed(ts) == [i \in 1..Len(ts) |-> ts[done_order[i]].val]

(* qti_util.py:127: [task.get() for task in tasks].                        *)
collect_results(ts) == [i \in 1..Len(ts) |-> ts[i].val]

(* qti_util.py:113: while ready_tasks < total_tasks.                       *)
while_not_all_ready(ready, total) == ready < total

(* Mutant of print_due: the line is due only after the delay is exceeded. *)
print_due_strict(no_print, delay) == no_print > delay

(* qti_util.py:123: if no_print_s >= print_delay_s.                        *)
print_due(no_print, delay) == no_print >= delay

(* multiprocessing.Pool(processes): ValueError unless processes >= 1.      *)
pool_processes_ok(n) == n >= 1

(* Mutant of pool_exit: the with block closes the pool, the workers go on. *)
pool_exit_close(alive) == alive

(* qti_util.py:108, Pool.__exit__ calls terminate(): the number of worker  *)
(* processes left alive when the with block is left, by return or raise.   *)
pool_exit(alive) == 0

(* Mutant of last_attempt: no attempt is taken for the last one.           *)
last_attempt_never(attempt, n) == FALSE

(* qti_util.py:93: the failed attempt was the last one.                    *)
last_attempt(attempt, n) == attempt + 1 = n

(* qti_util.py:82, range(attempts): is there an iteration number attempt.  *)
in_range(attempt, n) == attempt >= 0 /\ attempt < n

(* Mutant of open_wb: the destination is opened for appending.             *)
open_ab(bytes) == bytes

(* qti_util.py:87, open(filepath, "wb"): the bytes of the file once it is  *)
(* open, whatever it held before.                                          *)
open_wb(bytes) == <<>>

(* Mutant of tmp_path: the data is written to the final path itself.       *)
tmp_path_in_place(out_file) == out_file

(* qti_util.py:69: tmp_file = out_file + ".tmp".                           *)
tmp_path(out_file) == out_file \o <<".tmp">>

NumRunning == Cardinality({i \in 1..Len(tasks) : tasks[i].st = "running"})

(* qti_util.py:99-100 and 108: the workers that have run init_worker and   *)
(* wait for tasks; a worker runs it after its process has started and      *)
(* before it takes its first task.                                         *)
initialised_workers == IF sig.pc = "none" THEN pool_alive ELSE sig.inited

----------------------------------------------------------------------------
(* pool_apply, the coordinator side.                                       *)

(* qti_util.py:124-125 and 128: the two lines pool_apply prints.           *)
progress_line(ready, total, no_print) == <<"tasks done", ready, total, no_print>>
completed_line(total) == <<"Completed all", total>>

(* Leaving the with block on a normal return: results collected, the      *)
(* completion line stdout, Pool.__exit__ terminates the workers.          *)
PoolReturn ==
    /\ pool_pc' = "returned"
    /\ async_results' = collect_results(tasks)
    /\ pool_alive' = pool_exit(pool_alive)

(* qti_util.py:103-113: Pool() starts workers_num processes (or raises     *)
(* ValueError), every argument is submitted, the loop is entered.          *)
PoolEnter ==
    /\ pool_pc = "call"
    /\ IF ~pool_processes_ok(workers_num)
       THEN /\ pool_pc' = "raised"
            /\ raised' = <<"ValueError", "processes">>
            /\ UNCHANGED <<pool_alive, spawned, idx, ready_tasks, no_print_s,
                           stdout, async_results>>
       ELSE /\ spawned' = workers_num
            /\ raised' = <<>>
            /\ IF while_not_all_ready(0, Len(tasks))
               THEN /\ pool_pc' = "for"
                    /\ pool_alive' = workers_num
                    /\ idx' = 1
                    /\ ready_tasks' = 0
                    /\ no_print_s' = check_progress_interval
                    /\ UNCHANGED <<stdout, async_results>>
               ELSE /\ PoolReturn
                    /\ stdout' = completed_line(Len(tasks))
                    /\ UNCHANGED <<idx, ready_tasks, no_print_s>>
    /\ UNCHANGED <<tasks, files, done_order, verified, dl_vars, in_vars>>

(* qti_util.py:117-122: one task of the for loop. A ready task that failed *)
(* re-raises through task.get(); the exception leaves the with block,      *)
(* whose exit terminates the pool.                                         *)
PollCheck ==
    /\ pool_pc = "for"
    /\ idx <= Len(tasks)
    /\ IF task_ready(tasks[idx])
       THEN IF ~task_successful(tasks[idx])
            THEN /\ pool_pc' = "raised"
                 /\ raised' = tasks[idx].val
                 /\ pool_alive' = pool_exit(pool_alive)
                 /\ UNCHANGED <<idx, ready_tasks>>
            ELSE /\ ready_tasks' = ready_tasks + 1
                 /\ idx' = idx + 1
                 /\ UNCHANGED <<pool_pc, raised, pool_alive>>
       ELSE /\ idx' = idx + 1
            /\ UNCHANGED <<pool_pc, raised, pool_alive, ready_tasks>>
    /\ UNCHANGED <<tasks, files, no_print_s, stdout, async_results, spawned,
                   done_order, verified, dl_vars, in_vars>>

(* qti_util.py:123-128 and 113: after the for loop the progress line is    *)
(* printed when due, then the while condition decides between another      *)
(* pass and the return.                                                    *)
PollEnd ==
    /\ pool_pc = "for"
    /\ idx > Len(tasks)
    /\ LET due == print_due(no_print_s, print_delay_s)
           np == IF due THEN 0 ELSE no_print_s
           pr == IF due
                 THEN progress_line(ready_tasks, Len(tasks), no_print_s)
                 ELSE stdout
       IN IF while_not_all_ready(ready_tasks, Len(tasks))
          THEN /\ pool_pc' = "for"
               /\ idx' = 1
               /\ ready_tasks' = 0
               /\ no_print_s' = np + check_progress_interval
               /\ stdout' = pr
               /\ UNCHANGED <<async_results, pool_alive>>
          ELSE /\ PoolReturn
               /\ no_print_s' = np
               /\ stdout' = completed_line(Len(tasks))
               /\ UNCHANGED <<idx, ready_tasks>>
    /\ UNCHANGED <<tasks, files, raised, spawned, done_order, verified,
                   dl_vars, in_vars>>

----------------------------------------------------------------------------
(* The worker side.                                                        *)

(* A free worker takes the next task of the queue (tasks are handed out    *)
(* in submission order).                                                   *)
WorkerStart(i) ==
    /\ pool_alive > 0
    /\ tasks[i].st = "queued"
    /\ \A j \in 1..(i - 1) : tasks[j].st # "queued"
    /\ NumRunning < pool_alive
    /\ NumRunning < initialised_workers
    /\ tasks' = [tasks EXCEPT ![i].st = "running", ![i].pc = "begin"]
    /\ UNCHANGED <<files, pool_pc, pool_alive, idx, ready_tasks, no_print_s,
                   stdout, async_results, raised, spawned, done_order,
                   verified, dl_vars, in_vars>>

Finish(i, st, val) ==
    tasks' = [tasks EXCEPT ![i].st = st, ![i].val = val, ![i].pc = "end"]

pool_vars == <<pool_pc, pool_alive, idx, ready_tasks, no_print_s, stdout,
               async_results, raised, spawned>>

(* An opaque task function returns a value for its argument ...            *)
TaskReturn(i) ==
    /\ func = "task"
    /\ pool_alive > 0
    /\ tasks[i].st = "running"
    /\ \E r \in {"T", "F"} : Finish(i, "ok", <<"ret", tasks[i].arg, r>>)
    /\ done_order' = Append(done_order, i)
    /\ UNCHANGED <<files, verified, pool_vars, dl_vars, in_vars>>

(* ... or raises.                                                          *)
TaskRaise(i) ==
    /\ func = "task"
    /\ pool_alive > 0
    /\ tasks[i].st = "running"
    /\ Finish(i, "err", <<"TaskError", tasks[i].arg>>)
    /\ done_order' = Append(done_order, i)
    /\ UNCHANGED <<files, verified, pool_vars, dl_vars, in_vars>>

Name(i) == tasks[i].arg.info.name
Path(i) == get_archive_filepath(tasks[i].arg.info)
Expected(i) == tasks[i].arg.info.sha256

DownloadStep(i, pc) ==
    /\ func = "_download_archive"
    /\ pool_alive > 0
    /\ tasks[i].st = "running"
    /\ tasks[i].pc = pc

(* qti_util.py:92-95: an attempt failed: raise if it was the last one,     *)
(* else sleep and start the next attempt.                                  *)
AttemptFailed(i) ==
    IF last_attempt(tasks[i].attempt, attempts)
    THEN Finish(i, "err", <<"URLError", Name(i)>>)
    ELSE tasks' = [tasks EXCEPT ![i].attempt = @ + 1, ![i].pc = "urlopen"]

(* qti.py:125-135: the task returns at once when the destination already   *)
(* has the expected digest, else it calls retrieve_URL, whose loop runs    *)
(* range(attempts) times (qti_util.py:82).                                 *)
CheckExisting(i) ==
    /\ DownloadStep(i, "begin")
    /\ IF hash_matches(hash_or_empty(files[Path(i)]), Expected(i))
       THEN /\ Finish(i, "ok", <<"None">>)
            /\ verified' = verified \cup {Name(i)}
       ELSE /\ tasks' = [tasks EXCEPT ![i].attempt = 0,
                           ![i].pc = IF attempts > 0 THEN "urlopen" ELSE "verify"]
            /\ UNCHANGED verified
    /\ UNCHANGED <<files, done_order, pool_vars, dl_vars, in_vars>>

(* qti_util.py:85: urlopen raises (connection, timeout, HTTP error).       *)
UrlopenFail(i) ==
    /\ DownloadStep(i, "urlopen")
    /\ AttemptFailed(i)
    /\ UNCHANGED <<files, done_order, verified, pool_vars, dl_vars, in_vars>>

(* qti_util.py:85-87: the response opens, open(filepath, "wb") truncates   *)
(* the destination.                                                        *)
UrlopenOk(i) ==
    /\ DownloadStep(i, "urlopen")
    /\ files' = [files EXCEPT ![Path(i)] = "part"]
    /\ tasks' = [tasks EXCEPT ![i].pc = "copy"]
    /\ UNCHANGED <<done_order, verified, pool_vars, dl_vars, in_vars>>

(* qti_util.py:88: the copy breaks part-way; the bytes written stay.       *)
CopyFail(i) ==
    /\ DownloadStep(i, "copy")
    /\ AttemptFailed(i)
    /\ UNCHANGED <<files, done_order, verified, pool_vars, dl_vars, in_vars>>

(* qti_util.py:88-91: the whole response body is written.                  *)
CopyOk(i) ==
    /\ DownloadStep(i, "copy")
    /\ \E c \in Contents : files' = [files EXCEPT ![Path(i)] = c]
    /\ tasks' = [tasks EXCEPT ![i].pc = "verify"]
    /\ UNCHANGED <<done_order, verified, pool_vars, dl_vars, in_vars>>

(* qti.py:136-145: the digest of the destination after the fetch.          *)
Verify(i) ==
    /\ DownloadStep(i, "verify")
    /\ IF files[Path(i)] = "absent"
       THEN /\ Finish(i, "err", <<"FileNotFoundError", Name(i)>>)
            /\ UNCHANGED verified
       ELSE IF hash_matches(compute_hash(files[Path(i)]), Expected(i))
       THEN /\ Finish(i, "ok", <<"None">>)
            /\ verified' = verified \cup {Name(i)}
       ELSE /\ Finish(i, "err", <<"HashMismathError", Name(i)>>)
            /\ UNCHANGED verified
    /\ UNCHANGED <<files, done_order, pool_vars, dl_vars, in_vars>>

----------------------------------------------------------------------------
(* download_archives.                                                      *)

call_vars == <<files, attempts, workers_num, print_delay_s, func, rt, dj, sig,
               pool_alive, idx, ready_tasks, no_print_s, async_results,
               raised, spawned, verified>>

(* qti.py:156-165 and 174: the while test, the choice of a mirror, the     *)
(* argument list, the call of pool_apply; sys.exit when the pool is empty. *)
DLoop ==
    /\ dl_pc = "while"
    /\ IF while_working_mirrors(mirrors)
       THEN \E m \in Elems(mirrors) :
              /\ mirror_URL' = m
              /\ tasks' = submit(build_async_args(archives, m))
              /\ batches' = Append(batches, m)
              /\ dl_pc' = "pool_apply"
              /\ pool_pc' = "call"
              /\ stdout' = <<>>
              /\ done_order' = <<>>
       ELSE /\ dl_pc' = "sys.exit"
            /\ UNCHANGED <<mirror_URL, tasks, batches, pool_pc, stdout,
                           done_order>>
    /\ UNCHANGED <<archives, mirrors, mirrors0, files0, removed, call_vars>>

(* qti.py:165-166: pool_apply returned.                                    *)
DReturn ==
    /\ dl_pc = "pool_apply"
    /\ pool_pc = "returned"
    /\ dl_pc' = "returned"
    /\ pool_pc' = "idle"
    /\ UNCHANGED <<archives, mirrors, mirror_URL, tasks, batches, stdout,
                   done_order, mirrors0, files0, removed, call_vars>>

(* qti.py:167-173: pool_apply raised.                                      *)
DExcept ==
    /\ dl_pc = "pool_apply"
    /\ pool_pc = "raised"
    /\ pool_pc' = "idle"
    /\ IF except_clause(raised[1]) = "reraise"
       THEN /\ dl_pc' = "raised"
            /\ UNCHANGED <<mirrors, removed>>
       ELSE /\ mirrors' = list_remove(mirrors, mirror_URL)
            /\ removed' = removed \cup {mirror_URL}
            /\ dl_pc' = "while"
    /\ UNCHANGED <<archives, mirror_URL, tasks, batches, stdout, done_order,
                   mirrors0, files0, call_vars>>

----------------------------------------------------------------------------
(* Inputs.                                                                 *)

(* File names, contents and mirror URLs are opaque labels, so the first    *)
(* archive is given the first file name and the first content, and the     *)
(* first mirror the first URL: every other input is a renaming of one of   *)
(* these.                                                                  *)
ArchiveInfos(i) ==
    [name : {ArchiveNames[i]},
     rel_path : IF i = 1 THEN {<<"pkg1", "f1.7z">>}
                ELSE {<<"pkg2", "f1.7z">>, <<"pkg2", "f2.7z">>},
     sha256 : IF i = 1 THEN {"", "h1"} ELSE Hashes]

(* The values of the catalog dict: distinct names, in insertion order.     *)
Catalogs ==
    UNION {{a \in [1..k -> UNION {ArchiveInfos(i) : i \in 1..k}] :
                \A i \in 1..k : a[i] \in ArchiveInfos(i)} :
           k \in 0..Min(MaxArchives, Len(ArchiveNames))}

(* No call of retrieve_URL or of dump_JSON on its own is in progress.       *)
RtNone == [pc |-> "none"]
DjNone == [pc |-> "none"]

(* No interrupt is modelled: init_worker is one step with the worker's     *)
(* start.                                                                  *)
SigNone == [pc |-> "none"]

UsedFiles(archs) == {get_archive_filepath(archs[i]) : i \in 1..Len(archs)}

PoolIdle ==
    /\ tasks = <<>>
    /\ pool_alive = 0
    /\ idx = 1
    /\ ready_tasks = 0
    /\ no_print_s = 0
    /\ stdout = <<>>
    /\ async_results = <<>>
    /\ raised = <<>>
    /\ spawned = 0
    /\ done_order = <<>>
    /\ verified = {}

Init ==
    /\ archives \in Catalogs
    /\ mirrors \in SeqsUpTo(MirrorURLs, MaxMirrors)
    /\ mirrors # <<>> => mirrors[1] = "m1"
    /\ files \in [FileNames -> {"absent"} \cup Contents]
    /\ \A f \in FileNames \ UsedFiles(archives) : files[f] = "absent"
    /\ attempts \in 0..MaxAttempts
    /\ workers_num \in {0, MaxWorkers}
    /\ print_delay_s = check_progress_interval
    /\ func = "_download_archive"
    /\ dl_pc = "while"
    /\ mirror_URL = ""
    /\ pool_pc = "idle"
    /\ PoolIdle
    /\ mirrors0 = mirrors
    /\ files0 = files
    /\ removed = {}
    /\ batches = <<>>
    /\ rt = RtNone
    /\ dj = DjNone
    /\ sig = SigNone

Next ==
    \/ DLoop
    \/ DReturn
    \/ DExcept
    \/ PoolEnter
    \/ PollCheck
    \/ PollEnd
    \/ \E i \in 1..Len(tasks) : WorkerStart(i)
    \/ \E i \in 1..Len(tasks) : CheckExisting(i)
    \/ \E i \in 1..Len(tasks) : UrlopenFail(i)
    \/ \E i \in 1..Len(tasks) : UrlopenOk(i)
    \/ \E i \in 1..Len(tasks) : CopyFail(i)
    \/ \E i \in 1..Len(tasks) : CopyOk(i)
    \/ \E i \in 1..Len(tasks) : Verify(i)

Spec == Init /\ [][Next]_vars

(* pool_apply on its own, as get_data.py calls it: the arguments are       *)
(* distinct values, the task function is opaque.                           *)
InitPool ==
    /\ \E n \in 0..MaxTasks :
         tasks = submit([i \in 1..n |-> TaskArgs[i]])
    /\ workers_num \in (0 - 1)..MaxWorkers
    /\ print_delay_s \in 1..MaxPrintDelay
    /\ func = "task"
    /\ pool_pc = "call"
    /\ pool_alive = 0
    /\ idx = 1
    /\ ready_tasks = 0
    /\ no_print_s = 0
    /\ stdout = <<>>
    /\ async_results = <<>>
    /\ raised = <<>>
    /\ spawned = 0
    /\ done_order = <<>>
    /\ verified = {}
    /\ archives = <<>>
    /\ mirrors = <<>>
    /\ files = [f \in FileNames |-> "absent"]
    /\ attempts = 0
    /\ dl_pc = "none"
    /\ mirror_URL = ""
    /\ mirrors0 = <<>>
    /\ files0 = files
    /\ removed = {}
    /\ batches = <<>>
    /\ rt = RtNone
    /\ dj = DjNone
    /\ sig = SigNone

NextPool ==
    \/ PoolEnter
    \/ PollCheck
    \/ PollEnd
    \/ \E i \in 1..Len(tasks) : WorkerStart(i)
    \/ \E i \in 1..Len(tasks) : TaskReturn(i)
    \/ \E i \in 1..Len(tasks) : TaskRaise(i)

SpecPool == InitPool /\ [][NextPool]_vars

----------------------------------------------------------------------------
(* retrieve_URL on its own (qti_util.py:79-95). File contents are the      *)
(* sequence of the chunks written, so that a truncation, a partial copy    *)
(* and an append differ. rt.log is the history of the urlopen calls, the   *)
(* sleeps and the successful end; rt.dirty the bytes a failed copy left.   *)

Bodies == {<<"a", "b">>, <<"c">>}
OldBytes == {<<>>, <<"o">>}

rt_rest == <<archives, mirrors, files, workers_num, print_delay_s, dl_pc,
             mirror_URL, func, tasks, pool_pc, pool_alive, idx, ready_tasks,
             no_print_s, stdout, async_results, raised, spawned, done_order,
             mirrors0, files0, removed, batches, verified, dj, sig>>

(* qti_util.py:82: the for statement takes the next iteration, or the loop *)
(* is exhausted and the function falls off its end, returning None.        *)
RFor ==
    /\ rt.pc = "for"
    /\ IF in_range(rt.attempt, attempts)
       THEN rt' = [rt EXCEPT !.pc = "urlopen", !.contents = <<>>]
       ELSE rt' = [rt EXCEPT !.pc = "returned", !.ret = <<"None">>]
    /\ UNCHANGED <<attempts, rt_rest>>

(* qti_util.py:85: urlopen raises.                                         *)
RUrlopenFail ==
    /\ rt.pc = "urlopen"
    /\ rt' = [rt EXCEPT !.pc = "except",
                        !.log = Append(@, "urlopen"),
                        !.exc = <<"URLError", rt.attempt>>]
    /\ UNCHANGED <<attempts, rt_rest>>

(* qti_util.py:85-90: urlopen answers; with a filepath the destination is  *)
(* opened "wb", without one the body is read into memory.                  *)
RUrlopenOk ==
    /\ rt.pc = "urlopen"
    /\ \E b \in Bodies :
         IF rt.filepath # ""
         THEN rt' = [rt EXCEPT !.pc = "copy",
                               !.log = Append(@, "urlopen"),
                               !.body = b,
                               !.exists = TRUE,
                               !.file = open_wb(@),
                               !.written = 0]
         ELSE rt' = [rt EXCEPT !.pc = "read",
                               !.log = Append(@, "urlopen"),
                               !.body = b]
    /\ UNCHANGED <<attempts, rt_rest>>

(* qti_util.py:88, shutil.copyfileobj: the next chunk is written.          *)
RCopyChunk ==
    /\ rt.pc = "copy"
    /\ rt.written < Len(rt.body)
    /\ rt' = [rt EXCEPT !.file = Append(@, rt.body[rt.written + 1]),
                        !.written = @ + 1]
    /\ UNCHANGED <<attempts, rt_rest>>

(* qti_util.py:88: the connection fails before the end of the body; the    *)
(* with blocks close the file as it is.                                    *)
RCopyFail ==
    /\ rt.pc = "copy"
    /\ rt.written < Len(rt.body)
    /\ rt' = [rt EXCEPT !.pc = "except",
                        !.exc = <<"IncompleteRead", rt.attempt>>,
                        !.dirty = rt.file]
    /\ UNCHANGED <<attempts, rt_rest>>

(* qti_util.py:88-91: the body is copied, contents ("") is returned.       *)
RCopyDone ==
    /\ rt.pc = "copy"
    /\ rt.written = Len(rt.body)
    /\ rt' = [rt EXCEPT !.pc = "returned",
                        !.log = Append(@, "ok"),
                        !.ret = <<"contents", rt.contents>>]
    /\ UNCHANGED <<attempts, rt_rest>>

(* qti_util.py:90-91: response.read() gives the body, which is returned.   *)
RReadOk ==
    /\ rt.pc = "read"
    /\ rt' = [rt EXCEPT !.pc = "returned",
                        !.log = Append(@, "ok"),
                        !.contents = rt.body,
                        !.ret = <<"contents", rt.body>>]
    /\ UNCHANGED <<attempts, rt_rest>>

(* qti_util.py:90: response.read() raises.                                 *)
RReadFail ==
    /\ rt.pc = "read"
    /\ rt' = [rt EXCEPT !.pc = "except",
                        !.exc = <<"IncompleteRead", rt.attempt>>]
    /\ UNCHANGED <<attempts, rt_rest>>

(* qti_util.py:92-95: the except clause re-raises after the last attempt,  *)
(* else sleeps attempt_delay_s and the loop goes on.                       *)
RExcept ==
    /\ rt.pc = "except"
    /\ IF last_attempt(rt.attempt, attempts)
       THEN rt' = [rt EXCEPT !.pc = "raised"]
       ELSE rt' = [rt EXCEPT !.pc = "for",
                             !.log = Append(@, "sleep"),
                             !.attempt = @ + 1]
    /\ UNCHANGED <<attempts, rt_rest>>

(* Everything of download_archives and pool_apply is idle.                 *)
EngineIdle ==
    /\ PoolIdle
    /\ archives = <<>>
    /\ mirrors = <<>>
    /\ files = [f \in FileNames |-> "absent"]
    /\ workers_num = 0
    /\ print_delay_s = 0
    /\ func = "none"
    /\ dl_pc = "none"
    /\ pool_pc = "none"
    /\ mirror_URL = ""
    /\ mirrors0 = <<>>
    /\ files0 = files
    /\ removed = {}
    /\ batches = <<>>
    /\ sig = SigNone

(* The call retrieve_URL(URL, filepath, opts): opts[2] is any integer      *)
(* after int(), the filepath is "" or names a file that may exist.         *)
InitRetrieve ==
    /\ EngineIdle
    /\ dj = DjNone
    /\ attempts \in (0 - 1)..MaxAttempts
    /\ rt \in [pc : {"for"}, attempt : {0}, contents : {<<>>},
               filepath : {"", "f1.7z"}, exists : BOOLEAN, file : OldBytes,
               written : {0}, body : {<<>>}, exc : {<<>>}, ret : {<<>>},
               log : {<<>>}, dirty : {<<>>}]
    /\ ~rt.exists => rt.file = <<>>
    /\ rt.filepath = "" => ~rt.exists

NextRetrieve ==
    \/ RFor
    \/ RUrlopenFail
    \/ RUrlopenOk
    \/ RCopyChunk
    \/ RCopyFail
    \/ RCopyDone
    \/ RReadOk
    \/ RReadFail
    \/ RExcept

SpecRetrieve == InitRetrieve /\ [][NextRetrieve]_vars

----------------------------------------------------------------------------
(* dump_JSON on its own (qti_util.py:65-72). A path is the sequence of its *)
(* parts, so that out_file + ".tmp" is a concatenation. The content of a   *)
(* path is <<"absent">>, <<"json", d>> for the complete serialization of   *)
(* d, or <<"part", d>> for a proper prefix of it.                          *)

OutFile == <<"mirrors.json">>
DumpPaths == {OutFile, OutFile \o <<".tmp">>}
DumpData == {"d1", "d2"}

dj_rest == <<archives, mirrors, files, attempts, workers_num, print_delay_s,
             dl_pc, mirror_URL, func, tasks, pool_pc, pool_alive, idx,
             ready_tasks, no_print_s, stdout, async_results, raised, spawned,
             done_order, mirrors0, files0, removed, batches, verified, rt,
             sig>>

(* os.replace(src, dst): dst takes the content of src, src is gone.        *)
os_replace(fs, src, dst) ==
    [p \in DOMAIN fs |->
        IF p = dst THEN fs[src]
        ELSE IF p = src THEN <<"absent">>
        ELSE fs[p]]

(* qti_util.py:66-70: the directory is made, the temporary file is opened  *)
(* "w", which creates or truncates it.                                     *)
DOpen ==
    /\ dj.pc = "open"
    /\ dj' = [dj EXCEPT !.pc = "dump",
                        !.fs[tmp_path(dj.out_file)] = <<"part", dj.data>>]
    /\ UNCHANGED dj_rest

(* qti_util.py:70-71: json.dump writes the whole serialization and the     *)
(* with block closes the file.                                             *)
DDump ==
    /\ dj.pc = "dump"
    /\ dj' = [dj EXCEPT !.pc = "replace",
                        !.fs[tmp_path(dj.out_file)] = <<"json", dj.data>>]
    /\ UNCHANGED dj_rest

(* qti_util.py:71: json.dump raises part-way (a value it cannot encode, a  *)
(* full disk); the file is closed as it is and the exception leaves.       *)
DDumpFail ==
    /\ dj.pc = "dump"
    /\ dj' = [dj EXCEPT !.pc = "raised"]
    /\ UNCHANGED dj_rest

(* qti_util.py:72: os.replace(tmp_file, out_file).                         *)
DReplace ==
    /\ dj.pc = "replace"
    /\ dj' = [dj EXCEPT !.pc = "returned",
                        !.fs = os_replace(@, tmp_path(dj.out_file),
                                          dj.out_file)]
    /\ UNCHANGED dj_rest

(* The process is killed between two steps of the call.                    *)
DCrash ==
    /\ dj.pc \in {"open", "dump", "replace"}
    /\ dj' = [dj EXCEPT !.pc = "crashed", !.at = dj.pc]
    /\ UNCHANGED dj_rest

(* The call dump_JSON(data, out_file): the final path is absent or holds   *)
(* an earlier complete record; the temporary path is absent or is what an  *)
(* earlier call left behind.                                               *)
InitDump ==
    /\ EngineIdle
    /\ attempts = 0
    /\ rt = RtNone
    /\ \E d \in DumpData,
          old \in {<<"absent">>, <<"json", "d0">>, <<"json", "d1">>},
          left \in {<<"absent">>, <<"part", "d0">>, <<"json", "d0">>} :
         LET fs0 == [p \in DumpPaths |-> IF p = OutFile THEN old ELSE left]
         IN dj = [pc |-> "open", at |-> "none", out_file |-> OutFile,
                  data |-> d, fs |-> fs0, before |-> fs0]

NextDump ==
    \/ DOpen
    \/ DDump
    \/ DDumpFail
    \/ DReplace
    \/ DCrash

SpecDump == InitDump /\ [][NextDump]_vars

----------------------------------------------------------------------------
(* pool_apply under an interactive interrupt (qti_util.py:99-129). SIGINT  *)
(* goes to every process of the foreground group: the coordinator and its  *)
(* workers. sig.inited counts the workers that have run init_worker;       *)
(* sig.worker_hits and sig.coord_hits are the history of the processes in  *)
(* which the interrupt raised KeyboardInterrupt.                           *)

sig_rest == <<archives, mirrors, files, attempts, workers_num, print_delay_s,
              dl_pc, mirror_URL, func, tasks, idx, ready_tasks, no_print_s,
              stdout, async_results, spawned, done_order, mirrors0, files0,
              removed, batches, verified, rt, dj>>

(* qti_util.py:99-100: a started worker runs init_worker, which sets       *)
(* SIGINT to SIG_IGN in that process.                                      *)
WorkerInit ==
    /\ sig.pc = "armed"
    /\ pool_pc = "for"
    /\ sig.inited < pool_alive
    /\ sig' = [sig EXCEPT !.inited = @ + 1]
    /\ UNCHANGED <<sig_rest, pool_pc, pool_alive, raised>>

(* SIGINT while the batch runs. A worker that has run init_worker ignores  *)
(* it; one that has not yet still has the handler it started with and      *)
(* gets KeyboardInterrupt. In the coordinator KeyboardInterrupt is raised  *)
(* inside the with block (qti_util.py:113-126), no except clause of        *)
(* pool_apply takes it, and the exit of the block terminates the pool.     *)
Interrupt ==
    /\ sig.pc = "armed"
    /\ pool_pc = "for"
    /\ sig' = [sig EXCEPT !.pc = "delivered",
                          !.worker_hits = pool_alive - sig.inited,
                          !.coord_hits = @ + 1]
    /\ pool_pc' = "raised"
    /\ raised' = <<"KeyboardInterrupt">>
    /\ pool_alive' = pool_exit(pool_alive)
    /\ UNCHANGED sig_rest

(* pool_apply with a non-empty batch and at least one worker; one SIGINT   *)
(* may arrive at any moment of the polling loop.                           *)
InitInterrupt ==
    /\ \E n \in 1..MaxTasks :
         tasks = submit([i \in 1..n |-> TaskArgs[i]])
    /\ workers_num \in 1..MaxWorkers
    /\ print_delay_s = check_progress_interval
    /\ func = "task"
    /\ pool_pc = "call"
    /\ pool_alive = 0
    /\ idx = 1
    /\ ready_tasks = 0
    /\ no_print_s = 0
    /\ stdout = <<>>
    /\ async_results = <<>>
    /\ raised = <<>>
    /\ spawned = 0
    /\ done_order = <<>>
    /\ verified = {}
    /\ archives = <<>>
    /\ mirrors = <<>>
    /\ files = [f \in FileNames |-> "absent"]
    /\ attempts = 0
    /\ dl_pc = "none"
    /\ mirror_URL = ""
    /\ mirrors0 = <<>>
    /\ files0 = files
    /\ removed = {}
    /\ batches = <<>>
    /\ rt = RtNone
    /\ dj = DjNone
    /\ sig = [pc |-> "armed", inited |-> 0, worker_hits |-> 0,
              coord_hits |-> 0]

NextInterrupt ==
    \/ PoolEnter
    \/ PollCheck
    \/ PollEnd
    \/ WorkerInit
    \/ Interrupt
    \/ \E i \in 1..Len(tasks) : WorkerStart(i)
    \/ \E i \in 1..Len(tasks) : TaskReturn(i)
    \/ \E i \in 1..Len(tasks) : TaskRaise(i)

SpecInterrupt == InitInterrupt /\ [][NextInterrupt]_vars

----------------------------------------------------------------------------
(* download_archives when every batch ends: the coordinator keeps taking   *)
(* its steps, and so do the workers as long as the pool is alive (urlopen  *)
(* has a timeout, the retry loop is bounded by attempts). The operation    *)
(* starts on an empty archives directory; a file that is already there     *)
(* comes from an earlier batch of the same run.                            *)

CoordinatorStep ==
    DLoop \/ DReturn \/ DExcept \/ PoolEnter \/ PollCheck \/ PollEnd

WorkerStep ==
    \E i \in 1..Len(tasks) :
        \/ WorkerStart(i)
        \/ CheckExisting(i)
        \/ UrlopenFail(i)
        \/ UrlopenOk(i)
        \/ CopyFail(i)
        \/ CopyOk(i)
        \/ Verify(i)

InitLive ==
    /\ Init
    /\ files = [f \in FileNames |-> "absent"]

SpecLive ==
    /\ InitLive
    /\ [][Next]_vars
    /\ WF_vars(CoordinatorStep)
    /\ WF_vars(WorkerStep)

----------------------------------------------------------------------------
(* Vocabulary of the properties.                                           *)

DestPath(i) == get_archive_filepath(archives[i])

(* Archive i has a file at its destination whose digest is the expected.   *)
Verified(i) ==
    /\ files[DestPath(i)] # "absent"
    /\ compute_hash(files[DestPath(i)]) = archives[i].sha256

Count(s, x) == Cardinality({k \in 1..Len(s) : s[k] = x})

HashMismatchRaised ==
    dl_pc = "pool_apply" /\ pool_pc = "raised" /\ raised[1] = "HashMismathError"

NetworkClassRaised ==
    dl_pc = "pool_apply" /\ pool_pc = "raised" /\ raised[1] # "HashMismathError"

(* C1: whenever download_archives returns normally, every archive of the   *)
(* requested set has a file at its destination path whose computed hash    *)
(* equals the archive's expected hash.                                     *)
C1_ReturnMeansAllVerified ==
    dl_pc = "returned" => \A i \in 1..Len(archives) : Verified(i)

(* C2: a hash-mismatch error raised by the batch is re-raised unchanged by *)
(* download_archives, no mirror is removed and no further batch is         *)
(* submitted.                                                              *)
C2_HashMismatchPropagates ==
    [][(HashMismatchRaised \/ dl_pc = "raised")
          => /\ dl_pc' \in {dl_pc, "raised"}
             /\ raised' = raised
             /\ raised[1] = "HashMismathError"
             /\ mirrors' = mirrors
             /\ batches' = batches]_vars

C2_Witness ==
    /\ dl_pc = "raised"
    /\ Len(mirrors) = 2
    /\ mirrors[1] # mirrors[2]
    /\ Len(batches) = 1

(* C3: a mirror URL that has been removed from the pool is never the       *)
(* mirror of a later batch of the same operation.                          *)
C3_RemovedMirrorNeverChosen ==
    dl_pc = "pool_apply" => mirror_URL \notin removed

(* C4: the pool never gains an entry; a batch that fails with an error     *)
(* other than a hash mismatch removes exactly one entry, the mirror of     *)
(* that batch, and nothing else changes the pool; on return after K failed *)
(* batches K entries are gone and the mirror of the last batch is still in *)
(* the pool.                                                               *)
C4_PoolShrinksByChosenMirror ==
    /\ [][/\ \A m \in MirrorURLs : Count(mirrors', m) <= Count(mirrors, m)
          /\ (NetworkClassRaised /\ dl_pc' # dl_pc)
                => /\ Count(mirrors', mirror_URL) = Count(mirrors, mirror_URL) - 1
                   /\ Len(mirrors') = Len(mirrors) - 1
          /\ mirrors' # mirrors => (NetworkClassRaised /\ dl_pc' # dl_pc)]_vars
    /\ [](dl_pc = "returned"
            => /\ Len(mirrors) = Len(mirrors0) - (Len(batches) - 1)
               /\ mirror_URL \in Elems(mirrors)
               /\ mirror_URL = batches[Len(batches)])

C4_Witness ==
    /\ dl_pc = "returned"
    /\ Len(batches) = 2
    /\ Len(mirrors) = 1
    /\ raised = <<>>
    /\ \E i \in 1..Len(tasks) : tasks[i].pc = "end"

(* C5: the operation ends with the all-mirrors-exhausted exit only when    *)
(* the pool is empty and every entry of the list it was given had a        *)
(* failed batch; an empty pool at the loop test always leads to that exit, *)
(* never to a normal return; with an empty list no batch is submitted.     *)
C5_ExhaustionIsFatal ==
    /\ [](dl_pc = "sys.exit"
            => /\ mirrors = <<>>
               /\ Len(batches) = Len(mirrors0)
               /\ (mirrors0 = <<>> => (tasks = <<>> /\ spawned = 0)))
    /\ [](dl_pc \in {"returned", "raised", "pool_apply"} => mirrors # <<>>)
    /\ [][(dl_pc = "while" /\ mirrors = <<>>) => dl_pc' \in {"while", "sys.exit"}]_vars
    /\ [][(dl_pc = "while" /\ mirrors # <<>>) => dl_pc' # "sys.exit"]_vars

C5_Witness ==
    /\ dl_pc = "sys.exit"
    /\ Len(mirrors0) = 2
    /\ raised[1] = "URLError"

(* C6: when the operation ends with all mirrors exhausted, every archive   *)
(* destination is absent, unchanged from before the operation, or a        *)
(* complete file with the expected hash; none is partially written.        *)
C6_NoPartialFileOnExhaustion ==
    dl_pc = "sys.exit"
        => \A i \in 1..Len(archives) :
              /\ files[DestPath(i)] # "part"
              /\ \/ files[DestPath(i)] = "absent"
                 \/ files[DestPath(i)] = files0[DestPath(i)]
                 \/ Verified(i)

(* The positions of a task between the call of retrieve_URL and its        *)
(* return.                                                                 *)
Fetching(task) == task.pc \in {"urlopen", "copy", "verify"}

(* C7: a task that finds its destination with the non-empty expected hash  *)
(* does not fetch; an operation over a fully downloaded archive set        *)
(* fetches nothing; an archive verified in an earlier batch is not fetched *)
(* in a later batch.                                                       *)
C7_ValidArchiveNeverFetched ==
    /\ [][\A i \in 1..Len(tasks) :
            (/\ func = "_download_archive"
             /\ tasks[i].pc = "begin"
             /\ Len(tasks') = Len(tasks)
             /\ Fetching(tasks'[i]))
               => ~hash_matches(hash_or_empty(files[Path(i)]), Expected(i))]_vars
    /\ []((\A i \in 1..Len(archives) : archives[i].sha256 # ""
              /\ files0[DestPath(i)] # "absent"
              /\ compute_hash(files0[DestPath(i)]) = archives[i].sha256)
            => /\ files = files0
               /\ \A i \in 1..Len(tasks) : ~Fetching(tasks[i]))
    /\ [][\A i \in 1..Len(tasks) :
            (/\ func = "_download_archive"
             /\ tasks[i].pc = "begin"
             /\ Len(tasks') = Len(tasks)
             /\ Fetching(tasks'[i]))
               => Name(i) \notin verified]_vars

(* C8: when pool_apply returns, the result list is as long as the task     *)
(* list and its i-th element is what the i-th task returned for the i-th   *)
(* argument.                                                               *)
C8_ResultsInInputOrder ==
    pool_pc = "returned"
        => /\ Len(async_results) = Len(tasks)
           /\ \A i \in 1..Len(tasks) :
                 /\ async_results[i] = tasks[i].val
                 /\ func = "task" =>
                       /\ async_results[i][1] = "ret"
                       /\ async_results[i][2] = TaskArgs[i]

C8_Witness ==
    /\ pool_pc = "returned"
    /\ func = "task"
    /\ Len(tasks) = 3
    /\ done_order = <<3, 2, 1>>

(* C9: the step of the for loop that looks at a ready task which failed    *)
(* raises that task's error out of pool_apply in that same step, whatever  *)
(* the state of the other tasks; pool_apply returns only when every task   *)
(* succeeded.                                                              *)
C9_FirstObservedFailureRaised ==
    /\ [][(/\ pool_pc = "for"
           /\ idx <= Len(tasks)
           /\ tasks[idx].st = "err"
           /\ (idx' # idx \/ pool_pc' # pool_pc))
             => /\ pool_pc' = "raised"
                /\ raised' = tasks[idx].val
                /\ tasks' = tasks]_vars
    /\ [](pool_pc = "returned" => \A i \in 1..Len(tasks) : tasks[i].st = "ok")
    /\ [](pool_pc = "raised" /\ func = "task" /\ spawned > 0
            => \E i \in 1..Len(tasks) :
                  /\ tasks[i].st = "err"
                  /\ raised = <<"TaskError", TaskArgs[i]>>)

C9_Witness ==
    /\ pool_pc = "raised"
    /\ func = "task"
    /\ Len(tasks) = 3
    /\ raised = <<"TaskError", "B">>
    /\ tasks[1].st = "running"
    /\ tasks[3].st = "err"

(* C10: when pool_apply returns from a call with an empty task list, it    *)
(* returns an empty list, has started no worker and has printed no line.   *)
C10_EmptyBatchIsSilent ==
    (tasks = <<>> /\ func = "task" /\ pool_pc = "returned")
        => /\ async_results = <<>>
           /\ spawned = 0
           /\ stdout = <<>>

(* C11: whatever worker count is requested, zero and negative counts       *)
(* included, pool_apply works with a pool of at least one worker and does  *)
(* not fail on the worker count.                                           *)
C11_WorkerCountClamped ==
    (func = "task" /\ pool_pc \in {"for", "returned", "raised"})
        => /\ spawned >= 1
           /\ ~(pool_pc = "raised" /\ raised[1] = "ValueError")

(* The events of rt.log at the positions 1..n that are of kind e.          *)
LogCount(e) == Count(rt.log, e)

(* C12: with a maximum of n >= 1 attempts, retrieve_URL calls urlopen at   *)
(* most n times; a success is the last event of the call; there is exactly *)
(* one sleep between two consecutive attempts and none after the last; and *)
(* when the call raises, all n attempts were made and the exception is the *)
(* one of the n-th attempt.                                                *)
C12_BoundedRetry ==
    (rt.pc # "none" /\ attempts >= 1)
        => /\ LogCount("urlopen") <= attempts
           /\ \A k \in 1..Len(rt.log) :
                /\ rt.log[k] = "urlopen" => (k = 1 \/ rt.log[k - 1] = "sleep")
                /\ rt.log[k] = "sleep"
                     => /\ k > 1 /\ rt.log[k - 1] = "urlopen"
                        /\ (k < Len(rt.log) => rt.log[k + 1] = "urlopen")
                        /\ rt.pc \notin {"returned", "raised"} \/ k < Len(rt.log)
                /\ rt.log[k] = "ok"
                     => k = Len(rt.log) /\ k > 1 /\ rt.log[k - 1] = "urlopen"
           /\ rt.pc = "returned"
                => rt.log[Len(rt.log)] = "ok" /\ rt.ret[1] = "contents"
           /\ rt.pc = "raised"
                => /\ LogCount("urlopen") = attempts
                   /\ LogCount("sleep") = attempts - 1
                   /\ rt.exc[2] = attempts - 1

(* Both attempts of a call with n = 2 failed: one sleep, then the raise.   *)
C12_Witness ==
    /\ attempts = 2
    /\ rt.pc = "raised"
    /\ rt.log = <<"urlopen", "sleep", "urlopen">>

(* C13: at every point of a dump_JSON call, a crash at any step included,  *)
(* the final path is absent, or holds the complete content it had before   *)
(* the call, or holds the complete new serialization; never a part of one. *)
C13_FinalPathNeverPartial ==
    dj.pc # "none"
        => /\ dj.fs[dj.out_file] \in {<<"absent">>, dj.before[dj.out_file],
                                      <<"json", dj.data>>}
           /\ dj.fs[dj.out_file][1] # "part"

(* Killed after the temporary file was written and before the rename: the  *)
(* final path still holds what it held before, which is not the new data.  *)
C13_Witness ==
    /\ dj.pc = "crashed"
    /\ dj.at = "replace"
    /\ dj.fs[tmp_path(dj.out_file)] = <<"json", dj.data>>
    /\ dj.fs[dj.out_file] = dj.before[dj.out_file]
    /\ dj.fs[dj.out_file] # <<"json", dj.data>>

(* The destination of task i exists, its digest is the expected hash and   *)
(* the expected hash is not empty.                                         *)
AlreadyValid(i) ==
    /\ files[Path(i)] # "absent"
    /\ compute_hash(files[Path(i)]) = Expected(i)
    /\ Expected(i) # ""

(* C14: the step a download task takes from its beginning ends the task    *)
(* normally, without a fetch, exactly when its destination is already      *)
(* valid; in every other case (empty expected hash, missing file, file of  *)
(* another digest) the step starts the network fetch.                      *)
C14_FetchSkippedIffValid ==
    [][\A i \in 1..Len(tasks) :
         (dl_pc = "pool_apply" /\ tasks[i].pc = "begin"
            /\ tasks'[i].pc # "begin")
           => IF AlreadyValid(i)
              THEN tasks'[i].st = "ok" /\ tasks'[i].pc = "end"
              ELSE tasks'[i].pc = "urlopen"]_vars

(* C15: whenever pool_apply is not inside its polling loop (it returned,   *)
(* it raised, or download_archives is between two batches) no worker of    *)
(* the pool is alive, and no step taken from such a state changes a        *)
(* destination file or lets a task of the batch go on.                     *)
C15_PoolTornDownOnExit ==
    /\ [](pool_pc # "for" => pool_alive = 0)
    /\ [][(pool_pc # "for" /\ dl_pc # "while")
             => (files' = files /\ tasks' = tasks)]_vars
    /\ [][dl_pc = "while" => files' = files]_vars

(* pool_apply was left by the failure of one task while another task was   *)
(* in the middle of its copy: the workers it had started are gone.         *)
C15_Witness ==
    /\ pool_pc = "raised"
    /\ spawned > 1
    /\ pool_alive = 0
    /\ \E i \in 1..Len(tasks) :
         tasks[i].st = "running" /\ tasks[i].pc = "copy"

(* No two archives of the catalog share a destination file.                *)
DistinctDestinations ==
    \A i, j \in 1..Len(archives) : i # j => DestPath(i) # DestPath(j)

(* C16: once a task of the current batch has failed with a hash mismatch   *)
(* (every fetch being allowed at least one attempt, the expected hash      *)
(* being a real digest, the destinations distinct), download_archives does *)
(* not go back to its loop for another mirror and does not return: it      *)
(* stays in the batch until it ends with the hash-mismatch error.          *)
C16_HashMismatchStopsFailover ==
    (/\ attempts >= 1
     /\ DistinctDestinations
     /\ \E i \in 1..Len(tasks) :
          /\ tasks[i].st = "err"
          /\ tasks[i].val[1] = "HashMismathError"
          /\ Expected(i) # "")
      => /\ dl_pc \in {"pool_apply", "raised"}
         /\ dl_pc = "raised" => raised[1] = "HashMismathError"

(* C17 as stated: a task whose expected hash is empty, after a fetch that  *)
(* succeeded (at least one attempt is allowed), does not end with the      *)
(* hash-mismatch error.                                                    *)
C17_EmptyHashAccepted ==
    \A i \in 1..Len(tasks) :
        (attempts >= 1 /\ func = "_download_archive" /\ Expected(i) = "")
            => ~(tasks[i].st = "err" /\ tasks[i].val[1] = "HashMismathError")

(* C17 amended: a task whose expected hash is empty never returns          *)
(* normally, and its verification of a destination that exists always      *)
(* ends it with the hash-mismatch error.                                   *)
C17_EmptyHashRejected ==
    /\ [](\A i \in 1..Len(tasks) :
            (func = "_download_archive" /\ Expected(i) = "")
                => tasks[i].st # "ok")
    /\ [][\A i \in 1..Len(tasks) :
            (/\ dl_pc = "pool_apply"
             /\ Expected(i) = ""
             /\ tasks[i].pc = "verify"
             /\ tasks'[i].pc = "end"
             /\ files[Path(i)] # "absent")
              => /\ tasks'[i].st = "err"
                 /\ tasks'[i].val[1] = "HashMismathError"]_vars

(* A fetch wrote a complete content to the destination of an archive with  *)
(* an empty expected hash, and the task ended with the hash mismatch.      *)
C17_Witness ==
    \E i \in 1..Len(tasks) :
        /\ func = "_download_archive"
        /\ attempts >= 1
        /\ Expected(i) = ""
        /\ files[Path(i)] \in Contents
        /\ files0[Path(i)] = "absent"
        /\ tasks[i].st = "err"
        /\ tasks[i].val[1] = "HashMismathError"

(* Archive a of the catalog is already valid on disk.                      *)
ValidOnDisk(a) ==
    /\ archives[a].sha256 # ""
    /\ Verified(a)

TasksFor(a) == {i \in 1..Len(tasks) : tasks[i].arg.info = archives[a]}

(* C18 as stated: the batch handed to pool_apply has exactly one task for  *)
(* each archive that is not valid on disk and none for a valid one.        *)
C18_OnlyInvalidSubmitted ==
    (dl_pc = "pool_apply" /\ pool_pc = "call")
        => \A a \in 1..Len(archives) :
              Cardinality(TasksFor(a)) = IF ValidOnDisk(a) THEN 0 ELSE 1

(* C18 amended: the batch has exactly one task for every archive of the    *)
(* catalog, valid on disk or not, in catalog order, each with the mirror   *)
(* chosen for the batch.                                                   *)
C18_OneTaskPerArchive ==
    dl_pc = "pool_apply"
        => /\ Len(tasks) = Len(archives)
           /\ \A a \in 1..Len(archives) :
                tasks[a].arg = [info |-> archives[a], mirror |-> mirror_URL]

(* A batch is handed to pool_apply while one archive of a catalog of two   *)
(* is already valid on disk: it has a task all the same.                   *)
C18_Witness ==
    /\ dl_pc = "pool_apply"
    /\ pool_pc = "call"
    /\ Len(archives) = 2
    /\ ValidOnDisk(1)
    /\ ~ValidOnDisk(2)
    /\ TasksFor(1) = {1}

(* C19: any two tasks of a batch for archives of different names have      *)
(* different destination files.                                            *)
C19_DistinctNamesDistinctPaths ==
    func = "_download_archive"
        => \A i, j \in 1..Len(tasks) :
              Name(i) # Name(j) => Path(i) # Path(j)

(* C20: while retrieve_URL copies a response to its destination the file   *)
(* holds the chunks of that response written so far and nothing else, and  *)
(* when the call returns after a copy the file holds exactly the body of   *)
(* the response that succeeded, whatever earlier attempts or an earlier    *)
(* file left there.                                                        *)
C20_SuccessfulBytesOnly ==
    /\ (rt.pc = "copy")
          => rt.file = SubSeq(rt.body, 1, rt.written)
    /\ (rt.pc = "returned" /\ rt.filepath # "" /\ rt.ret[1] = "contents")
          => rt.exists /\ rt.file = rt.body

(* An attempt failed after it had written a chunk, the call slept, and a   *)
(* later attempt copied another response completely.                       *)
C20_Witness ==
    /\ rt.pc = "returned"
    /\ rt.filepath # ""
    /\ rt.dirty # <<>>
    /\ LogCount("sleep") >= 1
    /\ rt.file = rt.body
    /\ rt.body # <<"a", "b">>

(* The last line pool_apply printed is a progress line.                    *)
IsProgress(line) == line # <<>> /\ line[1] = "tasks done"

(* C21 as stated: while the batch runs, the time slept since the last      *)
(* progress line (or since the start) never exceeds the progress interval, *)
(* for every positive interval.                                            *)
C21_PrintEveryInterval ==
    (func = "task" /\ pool_pc = "for") => no_print_s <= print_delay_s

(* C21 amended: the time slept since the last progress line stays below    *)
(* the progress interval plus one poll period; a progress line is printed  *)
(* at the end of the first pass at which that time has reached the         *)
(* interval; the done count printed never exceeds the total and never      *)
(* decreases from one progress line to the next.                           *)
C21_PrintWithinIntervalPlusPoll ==
    /\ []((func = "task" /\ pool_pc = "for")
            => no_print_s < print_delay_s + check_progress_interval)
    /\ []((func = "task" /\ IsProgress(stdout))
            => /\ stdout[2] <= stdout[3]
               /\ stdout[3] = Len(tasks)
               /\ stdout[4] >= print_delay_s
               /\ stdout[4] < print_delay_s + check_progress_interval
               /\ stdout[4] % check_progress_interval = 0)
    /\ [][(func = "task" /\ IsProgress(stdout) /\ IsProgress(stdout'))
            => stdout'[2] >= stdout[2]]_vars

(* With an interval of 3 units and a poll period of 2, a progress line     *)
(* came after 4 units without one, with one of two tasks done, and the     *)
(* loop has slept once more since.                                         *)
C21_Witness ==
    /\ func = "task"
    /\ pool_pc = "for"
    /\ print_delay_s = 3
    /\ stdout = <<"tasks done", 1, 2, 4>>
    /\ no_print_s = check_progress_interval

(* C22: an interrupt delivered while a batch runs raises in no worker; it  *)
(* raises exactly once, in the coordinator, and pool_apply is then left    *)
(* with KeyboardInterrupt and no worker alive.                             *)
C22_InterruptHandledOnceCentrally ==
    sig.pc = "delivered"
        => /\ sig.worker_hits = 0
           /\ sig.coord_hits = 1
           /\ pool_pc = "raised"
           /\ raised = <<"KeyboardInterrupt">>
           /\ pool_alive = 0

(* qti.py:213-220: the mirror record of the data directory. The download   *)
(* loads it and hands the list to download_archives; no statement of       *)
(* qti.py writes it, so after the operation it is the list that was read.  *)
mirrors_JSON == mirrors0

(* C23: after a download in which the first mirror chosen failed with a    *)
(* network error and was dropped, and the second mirror served every       *)
(* archive, the persisted mirror record does not list the first mirror as  *)
(* a usable one.                                                           *)
C23_FailedMirrorExcludedInRecord ==
    (/\ dl_pc = "returned"
     /\ attempts >= 1
     /\ workers_num >= 1
     /\ DistinctDestinations
     /\ Len(batches) = 2
     /\ batches[1] # batches[2]
     /\ removed = {batches[1]})
        => batches[1] \notin Elems(mirrors_JSON)

(* C24: whenever retrieve_URL has returned, it has called urlopen at least *)
(* once and its last attempt succeeded, for every attempt count.           *)
C24_ReturnMeansFetched ==
    rt.pc = "returned"
        => /\ LogCount("urlopen") >= 1
           /\ rt.log[Len(rt.log)] = "ok"
           /\ rt.ret[1] = "contents"

(* download_archives has ended: it returned, it raised, or it called       *)
(* sys.exit("All mirrors unreachable.").                                   *)
Ended == dl_pc \in {"returned", "raised", "sys.exit"}

(* C25: when every batch ends, a download started with N mirrors submits   *)
(* at most N batches and ends; it ends by a normal return, by the          *)
(* hash-mismatch error or by the exhaustion of the mirrors, no other       *)
(* exception leaves it, and once ended it submits nothing more.            *)
C25_DownloadEnds ==
    /\ [](Len(batches) <= Len(mirrors0))
    /\ [](dl_pc = "raised" => raised[1] = "HashMismathError")
    /\ [][Ended => (dl_pc' = dl_pc /\ batches' = batches)]_vars
    /\ <>Ended

(* Both mirrors of a list of two were tried and dropped: N batches, then   *)
(* the exhaustion of the mirrors.                                          *)
C25_Witness ==
    /\ dl_pc = "sys.exit"
    /\ Len(mirrors0) = MaxMirrors
    /\ Len(batches) = Len(mirrors0)
    /\ mirrors = <<>>

====
